---- MODULE Spec2Model ----
(***************************************************************************)
(* A model of gitlab-ci-status (src/src/main.rs): one run of main, the     *)
(* status renderer display_status, the request URLs built by               *)
(* get_pipeline_status and get_jobs, and serde decoding of the two       *)
(* response bodies.                                                        *)
(*                                                                         *)
(* A Rust String is a sequence of characters; a character is a one-letter  *)
(* TLA+ string (or a U+XXXX name for the few non-ASCII characters).        *)
(***************************************************************************)
EXTENDS Integers, Sequences, FiniteSets, TLC

VARIABLES
    pc,          \* position of main
    gitMarker,   \* Path::new(".git").exists()
    cfgKeys,     \* keys present in the git configuration
    headState,   \* what HEAD is: "branch", "detached", "unborn", "nonutf8"
    cfgServer,   \* value stored under gitlab.server
    cfgProject,  \* value stored under gitlab.project-name
    headName,    \* name of the checked-out branch
    config,      \* the GitLabConfig main holds, or None
    branch,      \* main's `branch`, or None
    pipelines,   \* main's `pipelines`, or None
    jobs,        \* main's `jobs`, or None
    inflight,    \* HTTP exchanges begun and not yet finished
    requests,    \* every request sent so far: [kind, url, token]
    bodies,      \* every 2xx response body read so far: [kind, body]
    ops,         \* repository queries made so far
    stdout,      \* characters written to standard output
    stderr,      \* pieces written to standard error
    exitCode,    \* process exit code, or None while running
    failedAt,    \* the step whose error ended the run, or None
    fnIn,        \* argument of the function exercised on its own
    fnOut        \* its result, or None before the call

vars == <<pc, gitMarker, cfgKeys, headState, cfgServer, cfgProject, headName,
          config, branch, pipelines, jobs, inflight, requests, bodies, ops,
          stdout, stderr, exitCode, failedAt, fnIn, fnOut>>

\* Option<T>: None, or Some(x) holding x.
None == <<>>
Some(x) == <<x>>

-----------------------------------------------------------------------------
(* Characters and strings *)

Ascii ==
    <<" ", "!", "\"", "#", "$", "%", "&", "U+0027", "(", ")", "*", "+", ",", "-",
      ".", "/", "0", "1", "2", "3", "4", "5", "6", "7", "8", "9", ":", ";",
      "<", "=", ">", "?", "@", "A", "B", "C", "D", "E", "F", "G", "H", "I",
      "J", "K", "L", "M", "N", "O", "P", "Q", "R", "S", "T", "U", "V", "W",
      "X", "Y", "Z", "[", "\\", "]", "^", "_", "U+0060", "a", "b", "c", "d", "e",
      "f", "g", "h", "i", "j", "k", "l", "m", "n", "o", "p", "q", "r", "s",
      "t", "u", "v", "w", "x", "y", "z", "{", "|", "}", "~">>

AsciiSet == {Ascii[i] : i \in 1..Len(Ascii)}

\* The code point of each ASCII character: its place in Ascii, from 32.
CodeOf == [c \in AsciiSet |-> 31 + (CHOOSE i \in 1..Len(Ascii) : Ascii[i] = c)]

IsAscii(c) == c \in AsciiSet

Code(c) == CodeOf[c]

Chr(n) == Ascii[n - 31]

\* Non-ASCII characters of the model, by code point.
SharpS == "U+00DF"
EAcute == "U+00E9"
Kelvin == "U+212A"
Bullet == "U+25CF"
Newline == "U+000A"

Utf8Bytes(c) ==
    IF IsAscii(c) THEN <<Code(c)>>
    ELSE IF c = SharpS THEN <<195, 159>>
    ELSE IF c = EAcute THEN <<195, 169>>
    ELSE IF c = Kelvin THEN <<226, 132, 170>>
    ELSE IF c = Bullet THEN <<226, 151, 143>>
    ELSE <<10>>

RECURSIVE Flatten(_)
Flatten(ss) == IF ss = <<>> THEN <<>> ELSE Head(ss) \o Flatten(Tail(ss))

CharToLower(c) ==
    IF IsAscii(c) /\ Code(c) >= 65 /\ Code(c) <= 90 THEN Chr(Code(c) + 32)
    ELSE IF c = Kelvin THEN "k"
    ELSE c

CharToUpper(c) ==
    IF IsAscii(c) /\ Code(c) >= 97 /\ Code(c) <= 122 THEN <<Chr(Code(c) - 32)>>
    ELSE IF c = SharpS THEN <<"S", "S">>
    ELSE IF c = EAcute THEN <<"U+00C9">>
    ELSE <<c>>

to_lowercase(s) == [i \in 1..Len(s) |-> CharToLower(s[i])]

to_uppercase(s) == Flatten([i \in 1..Len(s) |-> CharToUpper(s[i])])

\* u64 Display: the decimal digits of n.
RECURSIVE ToDecimal(_)
ToDecimal(n) ==
    IF n < 10 THEN <<Chr(48 + n)>>
    ELSE ToDecimal(n \div 10) \o <<Chr(48 + (n % 10))>>

-----------------------------------------------------------------------------
(* display_status *)

sSuccess  == <<"s", "u", "c", "c", "e", "s", "s">>
sFailed   == <<"f", "a", "i", "l", "e", "d">>
sRunning  == <<"r", "u", "n", "n", "i", "n", "g">>
sPending  == <<"p", "e", "n", "d", "i", "n", "g">>
sCanceled == <<"c", "a", "n", "c", "e", "l", "e", "d">>
sSkipped  == <<"s", "k", "i", "p", "p", "e", "d">>

LabelSuccess  == <<Bullet, " ", "S", "U", "C", "C", "E", "S", "S">>
LabelFailed   == <<Bullet, " ", "F", "A", "I", "L", "E", "D">>
LabelBuilding == <<Bullet, " ", "B", "U", "I", "L", "D", "I", "N", "G">>
LabelCanceled == <<Bullet, " ", "C", "A", "N", "C", "E", "L", "E", "D">>
LabelSkipped  == <<Bullet, " ", "S", "K", "I", "P", "P", "E", "D">>

\* A match on the status as given.
MatchKeyCaseSensitive(status) == status

\* The string display_status matches on.

MatchKey(status) == to_lowercase(status)

\* The styled strings display_status hands to println!, one per call.
StatusLabels(status) ==
    LET key == MatchKey(status) IN
    IF key = sSuccess THEN <<[text |-> LabelSuccess, color |-> "green"]>>
    ELSE IF key = sFailed THEN <<[text |-> LabelFailed, color |-> "red"]>>
    ELSE IF key = sRunning \/ key = sPending
        THEN <<[text |-> LabelBuilding, color |-> "yellow"]>>
    ELSE IF key = sCanceled THEN <<[text |-> LabelCanceled, color |-> "white"]>>
    ELSE IF key = sSkipped THEN <<[text |-> LabelSkipped, color |-> "blue"]>>
    ELSE <<[text |-> <<Bullet, " ">> \o to_uppercase(status), color |-> "white"]>>

\* println!: the text and a newline.
Println(text) == text \o <<Newline>>

\* What one call of display_status writes to standard output.
display_status(status) ==
    Flatten([i \in 1..Len(StatusLabels(status)) |->
                Println(StatusLabels(status)[i].text)])

-----------------------------------------------------------------------------
(* Request URLs *)

HexDigits ==
    <<"0", "1", "2", "3", "4", "5", "6", "7", "8", "9",
      "A", "B", "C", "D", "E", "F">>

PercentByte(b) == <<"%", HexDigits[(b \div 16) + 1], HexDigits[(b % 16) + 1]>>

\* The bytes urlencoding::encode leaves as they are.
IsUnreservedByte(b) ==
    \/ b >= 48 /\ b <= 57
    \/ b >= 65 /\ b <= 90
    \/ b >= 97 /\ b <= 122
    \/ b \in {45, 46, 95, 126}

EncodeByte(b) == IF IsUnreservedByte(b) THEN <<Chr(b)>> ELSE PercentByte(b)

EncodeChar(c) ==
    Flatten([i \in 1..Len(Utf8Bytes(c)) |-> EncodeByte(Utf8Bytes(c)[i])])

urlencoding_encode(s) == Flatten([i \in 1..Len(s) |-> EncodeChar(s[i])])

\* A trim that removes one trailing c at most.
trim_one_end(s, c) ==
    IF s # <<>> /\ s[Len(s)] = c THEN SubSeq(s, 1, Len(s) - 1) ELSE s

RECURSIVE trim_end_matches(_, _)
trim_end_matches(s, c) ==
    IF s # <<>> /\ s[Len(s)] = c
        THEN trim_end_matches(SubSeq(s, 1, Len(s) - 1), c)
        ELSE s

sApiProjects ==
    <<"/", "a", "p", "i", "/", "v", "4", "/",
      "p", "r", "o", "j", "e", "c", "t", "s", "/">>
sPipelinesRef ==
    <<"/", "p", "i", "p", "e", "l", "i", "n", "e", "s", "?", "r", "e", "f", "=">>
sPipelinesSlash == <<"/", "p", "i", "p", "e", "l", "i", "n", "e", "s", "/">>
sJobs == <<"/", "j", "o", "b", "s">>

\* format! at main.rs:76 and main.rs:104, by argument.
PipelinesUrlFormat(server, project, ref) ==
    server \o sApiProjects \o project \o sPipelinesRef \o ref

JobsUrlFormat(server, project, id) ==
    server \o sApiProjects \o project \o sPipelinesSlash \o id \o sJobs

ServerArg(server) == trim_end_matches(server, "/")

ProjectArg(project_name) == urlencoding_encode(project_name)

PipelinesUrl(cfg, ref) ==
    PipelinesUrlFormat(ServerArg(cfg.server), ProjectArg(cfg.project_name), ref)

JobsUrl(cfg, pipeline_id) ==
    JobsUrlFormat(ServerArg(cfg.server), ProjectArg(cfg.project_name),
                  ToDecimal(pipeline_id))

-----------------------------------------------------------------------------
(* String literals *)

sBranchPrefix ==
    <<"B", "r", "a", "n", "c", "h", ":", " ">>

sNoPipelines ==
    <<"N", "o", " ", "p", "i", "p", "e", "l", "i", "n", "e", "s", " ", "f",
      "o", "u", "n", "d", " ", "f", "o", "r", " ", "t", "h", "i", "s", " ",
      "b", "r", "a", "n", "c", "h">>

sPipelineIdPrefix ==
    <<"P", "i", "p", "e", "l", "i", "n", "e", " ", "I", "D", ":", " ">>

sStatusHeader ==
    <<"S", "t", "a", "t", "u", "s", ":", " ">>

sJobsHeader ==
    <<Newline, "J", "o", "b", "s", ":">>

sJobIndent ==
    <<" ", " ">>

sJobOpen ==
    <<" ", "(">>

sJobClose ==
    <<")", " ", "-", " ">>

sHEAD ==
    <<"H", "E", "A", "D">>

sMain ==
    <<"m", "a", "i", "n">>

sFeatureX ==
    <<"f", "e", "a", "t", "u", "r", "e", "/", "x">>

sSuccessMixed ==
    <<"S", "u", "c", "c", "e", "s", "s">>

sManual ==
    <<"m", "a", "n", "u", "a", "l">>

sFailedUpper ==
    <<"F", "A", "I", "L", "E", "D">>

sBuild ==
    <<"b", "u", "i", "l", "d">>

sTest ==
    <<"t", "e", "s", "t">>

sDeploy ==
    <<"d", "e", "p", "l", "o", "y">>

sServerPlain ==
    <<"h", "t", "t", "p", "s", ":", "/", "/", "g", "l", ".", "e", "x", "a",
      "m", "p", "l", "e">>

sServerSlash ==
    <<"h", "t", "t", "p", "s", ":", "/", "/", "g", "l", ".", "e", "x", "a",
      "m", "p", "l", "e", "/">>

sProjectPath ==
    <<"g", "r", "o", "u", "p", "/", "s", "u", "b", "-", "p", "r", "o", "j",
      "e", "c", "t">>

sProjectId ==
    <<"4", "2">>

sToken ==
    <<"g", "l", "p", "a", "t", "-", "x">>

sSha ==
    <<"a", "b", "c", "1", "2", "3">>

-----------------------------------------------------------------------------
(* JSON bodies and serde decoding of them *)

\* JSON values: [t |-> "num", v], [t |-> "str", v], [t |-> "null"],
\* [t |-> "object", fields], [t |-> "array", items]; [t |-> "invalid"] is a
\* body that is no JSON text.
JNum(n) == [t |-> "num", v |-> n]
JStr(s) == [t |-> "str", v |-> s]
JNull == [t |-> "null"]
JObject(fields) == [t |-> "object", fields |-> fields]
JArray(items) == [t |-> "array", items |-> items]
JInvalid == [t |-> "invalid"]

\* u64 takes a JSON integer from 0 up; the model's numbers stay far below
\* 2^64, so the upper end is never met.
IsU64(j) == j.t = "num" /\ j.v >= 0
IsString(j) == j.t = "str"

\* The JSON keys serde requires for struct Pipeline, in field order, with
\* each field's Rust type.
PipelineKeys ==
    <<[field |-> "id", key |-> "id", type |-> "u64"],
      [field |-> "status", key |-> "status", type |-> "String"],
      [field |-> "ref_field", key |-> "ref_field", type |-> "String"],
      [field |-> "ref_name", key |-> "ref", type |-> "String"]>>

JobKeys ==
    <<[field |-> "id", key |-> "id", type |-> "u64"],
      [field |-> "status", key |-> "status", type |-> "String"],
      [field |-> "name", key |-> "name", type |-> "String"],
      [field |-> "stage", key |-> "stage", type |-> "String"]>>

HasType(j, type) == IF type = "u64" THEN IsU64(j) ELSE IsString(j)

\* A derived Deserialize for a struct takes a JSON object (every key of the
\* struct present with its type, other keys ignored) or a JSON array of
\* exactly the struct's fields in order.
StructDecodes(j, keys) ==
    \/ /\ j.t = "object"
       /\ \A i \in 1..Len(keys) :
            /\ keys[i].key \in DOMAIN j.fields
            /\ HasType(j.fields[keys[i].key], keys[i].type)
    \/ /\ j.t = "array"
       /\ Len(j.items) = Len(keys)
       /\ \A i \in 1..Len(keys) : HasType(j.items[i], keys[i].type)

FieldValue(j, keys, field) ==
    LET i == CHOOSE k \in 1..Len(keys) : keys[k].field = field IN
    IF j.t = "object" THEN j.fields[keys[i].key].v ELSE j.items[i].v

DecodeStruct(j, keys) ==
    [k \in {keys[i].field : i \in 1..Len(keys)} |-> FieldValue(j, keys, k)]

\* response.json::<Vec<T>>(): Ok with one T per element, or Err.
DecodeVec(body, keys) ==
    IF /\ body.t = "array"
       /\ \A i \in 1..Len(body.items) : StructDecodes(body.items[i], keys)
    THEN [ok |-> TRUE,
          value |-> [i \in 1..Len(body.items) |->
                        DecodeStruct(body.items[i], keys)]]
    ELSE [ok |-> FALSE]

DecodePipelines(body) == DecodeVec(body, PipelineKeys)

DecodeJobs(body) == DecodeVec(body, JobKeys)

-----------------------------------------------------------------------------
(* The world one run of main meets *)

MaxPipelines == 2
MaxJobs == 2

KeyServer == "gitlab.server"
KeyToken == "gitlab.access-token"
KeyProject == "gitlab.project-name"
ConfigKeys == {KeyServer, KeyToken, KeyProject}

HeadStates == {"branch", "detached", "unborn", "nonutf8"}
Servers == {sServerPlain, sServerSlash}
Projects == {sProjectPath, sProjectId}
BranchNames == {sMain, sFeatureX}

HttpStatuses == {200, 201, 401, 404, 500}

\* An element of the pipelines array as GitLab sends it: no ref_field key.
GitLabPipelineObject(id, status, ref) ==
    JObject([id |-> JNum(id), status |-> JStr(status), ref |-> JStr(ref),
             sha |-> JStr(sSha)])

\* The same with a ref_field key added.
RefFieldPipelineObject(id, status, ref) ==
    JObject([id |-> JNum(id), status |-> JStr(status), ref |-> JStr(ref),
             ref_field |-> JStr(ref), sha |-> JStr(sSha)])

PipelineElements ==
    {RefFieldPipelineObject(7, sRunning, sMain),
     RefFieldPipelineObject(42, sSuccessMixed, sMain),
     GitLabPipelineObject(7, sRunning, sMain),
     JObject([id |-> JStr(sProjectId), status |-> JStr(sRunning),
              ref |-> JStr(sMain), ref_field |-> JStr(sMain)]),
     JObject([id |-> JNum(7), status |-> JNull, ref |-> JStr(sMain),
              ref_field |-> JStr(sMain)]),
     JArray(<<JNum(9), JStr(sManual), JStr(sMain), JStr(sMain)>>)}

JobObject(id, status, name, stage) ==
    JObject([id |-> JNum(id), status |-> JStr(status), name |-> JStr(name),
             stage |-> JStr(stage), ref |-> JStr(sMain)])

JobElements ==
    {JobObject(1, sSuccess, sBuild, sBuild),
     JobObject(2, sFailedUpper, sTest, sTest),
     JobObject(3, sManual, sDeploy, sDeploy),
     JObject([id |-> JNum(4), status |-> JStr(sSuccess),
              name |-> JStr(sBuild)])}

SeqsUpTo(S, n) == UNION {[1..k -> S] : k \in 0..n}

\* The bodies a 2xx response may carry.
PipelineBodies ==
    {JArray(items) : items \in SeqsUpTo(PipelineElements, MaxPipelines)}
        \cup {JInvalid, JObject([message |-> JStr(sManual)])}

JobBodies ==
    {JArray(items) : items \in SeqsUpTo(JobElements, MaxJobs)}
        \cup {JInvalid, JObject([message |-> JStr(sManual)])}

-----------------------------------------------------------------------------
(* main *)

is_success(code) == code >= 200 /\ code <= 299

\* An error path that ends the run with exit code 0.
ReturnErrExitZero(step, chain) ==
    /\ stderr' = stderr \o <<"Error: ">> \o chain \o <<"\n">>
    /\ exitCode' = Some(0)
    /\ failedAt' = Some(step)
    /\ pc' = "done"

\* Err returned from main: the runtime prints "Error: " and the error's
\* debug form (the context chain) to standard error and exits with 1.
ReturnErr(step, chain) ==
    /\ stderr' = stderr \o <<"Error: ">> \o chain \o <<"\n">>
    /\ exitCode' = Some(1)
    /\ failedAt' = Some(step)
    /\ pc' = "done"

ReturnOk ==
    /\ exitCode' = Some(0)
    /\ pc' = "done"
    /\ UNCHANGED <<stderr, failedAt>>

Init ==
    /\ pc = "start"
    /\ gitMarker \in BOOLEAN
    /\ cfgKeys \in SUBSET ConfigKeys
    /\ headState \in HeadStates
    /\ cfgServer \in Servers
    /\ cfgProject \in Projects
    /\ headName \in BranchNames
    /\ config = None
    /\ branch = None
    /\ pipelines = None
    /\ jobs = None
    /\ inflight = 0
    /\ requests = <<>>
    /\ bodies = <<>>
    /\ ops = <<>>
    /\ stdout = <<>>
    /\ stderr = <<>>
    /\ exitCode = None
    /\ failedAt = None
    /\ fnIn = None
    /\ fnOut = None

world == <<gitMarker, cfgKeys, headState, cfgServer, cfgProject, headName>>
fnVars == <<fnIn, fnOut>>

\* The marker check without its exit: the message, then the run goes on.
CheckGitMarkerNoExit ==
    /\ pc = "start"
    /\ IF ~gitMarker
        THEN stderr' = stderr \o <<"Error: Not in a git repository", "\n">>
        ELSE UNCHANGED stderr
    /\ pc' = "get_git_config"
    /\ UNCHANGED <<world, fnVars, config, branch, pipelines, jobs, inflight,
                   requests, bodies, ops, stdout, exitCode, failedAt>>

\* main.rs:144-147
CheckGitMarker ==
    /\ pc = "start"
    /\ IF ~gitMarker
        THEN /\ stderr' = stderr \o <<"Error: Not in a git repository", "\n">>
             /\ exitCode' = Some(1)
             /\ failedAt' = Some("git_marker")
             /\ pc' = "done"
        ELSE /\ pc' = "get_git_config"
             /\ UNCHANGED <<stderr, exitCode, failedAt>>
    /\ UNCHANGED <<world, fnVars, config, branch, pipelines, jobs, inflight,
                   requests, bodies, ops, stdout>>

\* An order that reads the project name before the token.
ConfigKeyOrderProjectFirst == <<KeyServer, KeyProject, KeyToken>>

\* The order in which get_git_config reads the keys.

ConfigKeyOrder == <<KeyServer, KeyToken, KeyProject>>

\* The keys get_string is called on: up to the first absent one.
KeysRead(present) ==
    LET missing == {i \in 1..Len(ConfigKeyOrder) :
                        ConfigKeyOrder[i] \notin present}
        last == IF missing = {} THEN Len(ConfigKeyOrder)
                ELSE CHOOSE i \in missing : \A j \in missing : i <= j
    IN SubSeq(ConfigKeyOrder, 1, last)

ConfigValue(key) ==
    IF key = KeyServer THEN cfgServer
    ELSE IF key = KeyToken THEN sToken
    ELSE cfgProject

\* main.rs:150 with get_git_config, main.rs:41-62
GetGitConfig ==
    /\ pc = "get_git_config"
    /\ \E openOk \in BOOLEAN, configOk \in BOOLEAN :
        LET read == KeysRead(cfgKeys)
            lastKey == read[Len(read)]
        IN
        IF ~openOk
            THEN /\ ops' = Append(ops, "Repository::open")
                 /\ ReturnErr("get_git_config",
                              <<"Failed to open git repository">>)
                 /\ UNCHANGED config
        ELSE IF ~configOk
            THEN /\ ops' = ops \o <<"Repository::open", "repo.config">>
                 /\ ReturnErr("get_git_config", <<"Failed to get git config">>)
                 /\ UNCHANGED config
        ELSE /\ ops' = ops \o <<"Repository::open", "repo.config">>
                        \o [i \in 1..Len(read) |-> "get_string"]
             /\ IF lastKey \notin cfgKeys
                 THEN /\ ReturnErr("get_git_config",
                                   <<lastKey, " not found in .git/config">>)
                      /\ UNCHANGED config
                 ELSE /\ config' = Some([server |-> ConfigValue(KeyServer),
                                 access_token |-> ConfigValue(KeyToken),
                                 project_name |-> ConfigValue(KeyProject)])
                      /\ pc' = "get_current_branch"
                      /\ UNCHANGED <<stderr, exitCode, failedAt>>
    /\ UNCHANGED <<world, fnVars, branch, pipelines, jobs, inflight, requests,
                   bodies, stdout>>

\* main.rs:153-154 with get_current_branch, main.rs:64-72
GetCurrentBranch ==
    /\ pc = "get_current_branch"
    /\ \E openOk \in BOOLEAN :
        IF ~openOk
            THEN /\ ops' = Append(ops, "Repository::open")
                 /\ ReturnErr("get_current_branch",
                              <<"Failed to open git repository">>)
                 /\ UNCHANGED <<branch, stdout>>
        ELSE /\ ops' = ops \o <<"Repository::open", "repo.head">>
             /\ IF headState = "unborn"
                 THEN /\ ReturnErr("get_current_branch", <<"Failed to get HEAD">>)
                      /\ UNCHANGED <<branch, stdout>>
                ELSE IF headState = "nonutf8"
                 THEN /\ ReturnErr("get_current_branch",
                                   <<"Failed to get branch name">>)
                      /\ UNCHANGED <<branch, stdout>>
                ELSE LET name == IF headState = "detached" THEN sHEAD
                                 ELSE headName
                     IN /\ branch' = Some(name)
                        /\ stdout' = stdout \o Println(sBranchPrefix \o name)
                        /\ pc' = "pipelines_send"
                        /\ UNCHANGED <<stderr, exitCode, failedAt>>
    /\ UNCHANGED <<world, fnVars, config, pipelines, jobs, inflight, requests,
                   bodies>>

\* client.get(&url).header("PRIVATE-TOKEN", ..).send() at main.rs:83-86
PipelinesSend ==
    /\ pc = "pipelines_send"
    /\ requests' = Append(requests,
            [kind |-> "pipelines", url |-> PipelinesUrl(config[1], branch[1]),
             token |-> config[1].access_token])
    /\ inflight' = inflight + 1
    /\ pc' = "pipelines_await"
    /\ UNCHANGED <<world, fnVars, config, branch, pipelines, jobs, bodies, ops,
                   stdout, stderr, exitCode, failedAt>>

\* A send that is tried once more after a transport failure.
PipelinesResponseRetry ==
    /\ pc = "pipelines_await"
    /\ \/ /\ inflight' = inflight - 1
          /\ IF Len(requests) < 2
                THEN /\ pc' = "pipelines_send"
                     /\ UNCHANGED <<stderr, exitCode, failedAt>>
                ELSE ReturnErr("get_pipeline_status",
                               <<"Failed to send request to GitLab API">>)
       \/ \E code \in HttpStatuses :
            IF ~is_success(code)
                THEN /\ inflight' = inflight - 1
                     /\ ReturnErr("get_pipeline_status",
                            <<"GitLab API request failed: ", ToString(code)>>)
                ELSE /\ pc' = "pipelines_json"
                     /\ UNCHANGED <<inflight, stderr, exitCode, failedAt>>
    /\ UNCHANGED <<world, fnVars, config, branch, pipelines, jobs, requests,
                   bodies, ops, stdout>>

\* .await of send and the status check, main.rs:87-92
PipelinesResponse ==
    /\ pc = "pipelines_await"
    /\ \/ /\ inflight' = inflight - 1
          /\ ReturnErr("get_pipeline_status",
                       <<"Failed to send request to GitLab API">>)
       \/ \E code \in HttpStatuses :
            IF ~is_success(code)
                THEN /\ inflight' = inflight - 1
                     /\ ReturnErr("get_pipeline_status",
                            <<"GitLab API request failed: ", ToString(code)>>)
                ELSE /\ pc' = "pipelines_json"
                     /\ UNCHANGED <<inflight, stderr, exitCode, failedAt>>
    /\ UNCHANGED <<world, fnVars, config, branch, pipelines, jobs, requests,
                   bodies, ops, stdout>>

\* The index of the last element.
LastIndex(list) == Len(list)

\* The index main takes as the latest pipeline, main.rs:165

LatestIndex(list) == 1

\* Nothing printed for the pipeline before the jobs are fetched.
PipelineOutputDeferred(p) == <<>>

\* An empty pipeline list treated as an error.
EmptyPipelinesBail == ReturnErr("main", <<"No pipelines found">>)

\* main.rs:161
EmptyPipelinesReturn == ReturnOk

\* main.rs:166-168
PipelineOutput(p) ==
    Println(sPipelineIdPrefix \o ToDecimal(p.id))
        \o Println(sStatusHeader)
        \o display_status(p.status)

\* response.json().await at main.rs:94-97, then main.rs:159-168
PipelinesJson ==
    /\ pc = "pipelines_json"
    /\ \E body \in PipelineBodies :
        LET r == DecodePipelines(body) IN
        /\ bodies' = Append(bodies, [kind |-> "pipelines", body |-> body])
        /\ inflight' = inflight - 1
        /\ IF ~r.ok
            THEN /\ ReturnErr("get_pipeline_status",
                              <<"Failed to parse pipeline response">>)
                 /\ UNCHANGED <<pipelines, stdout>>
           ELSE /\ pipelines' = Some(r.value)
                /\ IF r.value = <<>>
                    THEN /\ stdout' = stdout \o Println(sNoPipelines)
                         /\ EmptyPipelinesReturn
                    ELSE /\ stdout' = stdout \o
                                PipelineOutput(r.value[LatestIndex(r.value)])
                         /\ pc' = "jobs_send"
                         /\ UNCHANGED <<stderr, exitCode, failedAt>>
    /\ UNCHANGED <<world, fnVars, config, branch, jobs, requests, ops>>

\* main.rs:171 with client.get(&url)...send() at main.rs:111-114
JobsSend ==
    /\ pc = "jobs_send"
    /\ requests' = Append(requests,
            [kind |-> "jobs",
             url |-> JobsUrl(config[1],
                             pipelines[1][LatestIndex(pipelines[1])].id),
             token |-> config[1].access_token])
    /\ inflight' = inflight + 1
    /\ pc' = "jobs_await"
    /\ UNCHANGED <<world, fnVars, config, branch, pipelines, jobs, bodies, ops,
                   stdout, stderr, exitCode, failedAt>>

\* .await of send and the status check, main.rs:115-120
JobsResponse ==
    /\ pc = "jobs_await"
    /\ \/ /\ inflight' = inflight - 1
          /\ ReturnErr("get_jobs", <<"Failed to send request to GitLab API">>)
       \/ \E code \in HttpStatuses :
            IF ~is_success(code)
                THEN /\ inflight' = inflight - 1
                     /\ ReturnErr("get_jobs",
                            <<"GitLab API request failed: ", ToString(code)>>)
                ELSE /\ pc' = "jobs_json"
                     /\ UNCHANGED <<inflight, stderr, exitCode, failedAt>>
    /\ UNCHANGED <<world, fnVars, config, branch, pipelines, jobs, requests,
                   bodies, ops, stdout>>

\* main.rs:176-177: one job's line.
JobLine(job) ==
    sJobIndent \o job.name \o sJobOpen \o job.stage \o sJobClose
        \o display_status(job.status)

\* main.rs:173-179
JobsOutput(list) ==
    IF list = <<>> THEN <<>>
    ELSE Println(sJobsHeader)
            \o Flatten([i \in 1..Len(list) |-> JobLine(list[i])])

\* response.json().await at main.rs:122-125, then main.rs:173-181
JobsJson ==
    /\ pc = "jobs_json"
    /\ \E body \in JobBodies :
        LET r == DecodeJobs(body) IN
        /\ bodies' = Append(bodies, [kind |-> "jobs", body |-> body])
        /\ inflight' = inflight - 1
        /\ IF ~r.ok
            THEN /\ ReturnErr("get_jobs", <<"Failed to parse jobs response">>)
                 /\ UNCHANGED <<jobs, stdout>>
           ELSE /\ jobs' = Some(r.value)
                /\ stdout' = stdout \o JobsOutput(r.value)
                /\ ReturnOk
    /\ UNCHANGED <<world, fnVars, config, branch, pipelines, requests, ops>>

Next ==
    \/ CheckGitMarker
    \/ GetGitConfig
    \/ GetCurrentBranch
    \/ PipelinesSend
    \/ PipelinesResponse
    \/ PipelinesJson
    \/ JobsSend
    \/ JobsResponse
    \/ JobsJson

Spec == Init /\ [][Next]_vars

-----------------------------------------------------------------------------
(* display_status on its own: every input below is rendered once *)

sCreated == <<"c", "r", "e", "a", "t", "e", "d">>
sCancelledUk == <<"c", "a", "n", "c", "e", "l", "l", "e", "d">>
sSucces == <<"s", "u", "c", "c", "e", "s">>
sStrasse == <<"s", "t", "r", "a", SharpS, "e">>
sSkippedKelvin == <<"s", Kelvin, "i", "p", "p", "e", "d">>

StatusWords ==
    {sSuccess, sFailed, sRunning, sPending, sCanceled, sSkipped, sCreated,
     sManual, sCancelledUk, sSucces, sStrasse, sSkippedKelvin, <<>>}

\* Most letters of a status that may be upper case in an input.
MaxUpperCase == 2

\* word with the letters at the positions in `at` in upper case.
WithUpperCase(word, at) ==
    Flatten([i \in 1..Len(word) |->
                IF i \in at THEN CharToUpper(word[i]) ELSE <<word[i]>>])

StatusInputs ==
    {WithUpperCase(w, at) :
        w \in StatusWords,
        at \in {a \in SUBSET (1..8) : Cardinality(a) <= MaxUpperCase}}
        \cup {to_uppercase(w) : w \in StatusWords}

\* The variables of main, at rest while a single function is exercised.
MainIdle ==
    /\ gitMarker = TRUE
    /\ cfgKeys = ConfigKeys
    /\ headState = "branch"
    /\ cfgServer = sServerPlain
    /\ cfgProject = sProjectPath
    /\ headName = sMain
    /\ config = None
    /\ branch = None
    /\ pipelines = None
    /\ jobs = None
    /\ inflight = 0
    /\ requests = <<>>
    /\ bodies = <<>>
    /\ ops = <<>>
    /\ stdout = <<>>
    /\ stderr = <<>>
    /\ exitCode = None
    /\ failedAt = None

mainVars ==
    <<world, config, branch, pipelines, jobs, inflight, requests, bodies, ops,
      stderr, exitCode, failedAt>>

InitRender ==
    /\ MainIdle
    /\ pc = "call"
    /\ fnIn \in {Some(s) : s \in StatusInputs}
    /\ fnOut = None

\* One call of display_status, main.rs:130-139
DisplayStatusCall ==
    /\ pc = "call"
    /\ fnOut' = Some(StatusLabels(fnIn[1]))
    /\ stdout' = stdout \o display_status(fnIn[1])
    /\ pc' = "returned"
    /\ UNCHANGED <<mainVars, fnIn>>

NextRender == DisplayStatusCall

SpecRender == InitRender /\ [][NextRender]_vars

-----------------------------------------------------------------------------
(* The two URL builders on their own *)

MaxServerLen == 3
MaxProjectLen == 2

sBranchOdd == <<"a", "&", "b", "#", "1">>

ServerInputs ==
    SeqsUpTo({"h", "/"}, MaxServerLen) \cup {sServerPlain, sServerSlash}

ProjectInputs ==
    SeqsUpTo({"g", "/", " ", "~", EAcute}, MaxProjectLen)
        \cup {sProjectPath, sProjectId}

BranchInputs == {sMain, sFeatureX, sBranchOdd}

PipelineIdInputs == {0, 7, 1230}

InitUrl ==
    /\ MainIdle
    /\ pc = "call"
    /\ fnIn \in {Some(x) :
            x \in [server : ServerInputs, project_name : ProjectInputs,
                   access_token : {sToken}, branch : BranchInputs,
                   pipeline_id : PipelineIdInputs]}
    /\ fnOut = None

\* The url of get_pipeline_status(config, branch), main.rs:76-81
BuildPipelinesUrl ==
    /\ pc = "call"
    /\ fnOut' = Some([kind |-> "pipelines",
                      url |-> PipelinesUrl(fnIn[1], fnIn[1].branch)])
    /\ pc' = "returned"
    /\ UNCHANGED <<mainVars, stdout, fnIn>>

\* The url of get_jobs(config, pipeline_id), main.rs:104-109
BuildJobsUrl ==
    /\ pc = "call"
    /\ fnOut' = Some([kind |-> "jobs",
                      url |-> JobsUrl(fnIn[1], fnIn[1].pipeline_id)])
    /\ pc' = "returned"
    /\ UNCHANGED <<mainVars, stdout, fnIn>>

NextUrl ==
    \/ BuildPipelinesUrl
    \/ BuildJobsUrl

SpecUrl == InitUrl /\ [][NextUrl]_vars

-----------------------------------------------------------------------------
(* Properties *)

IsPrefix(a, b) == Len(a) <= Len(b) /\ SubSeq(b, 1, Len(a)) = a

RequestKinds == [i \in 1..Len(requests) |-> requests[i].kind]

Ran(op) == \E i \in 1..Len(ops) : ops[i] = op

Names(key) == \E i \in 1..Len(stderr) : stderr[i] = key

ExitedNonZero == exitCode # None /\ exitCode # Some(0)

\* C1: without a .git marker the run prints the error, exits with 1, and
\* makes no repository query, config read, branch resolution or request.
C1_NoMarkerExitsFirst ==
    (~gitMarker /\ pc # "start") =>
        /\ pc = "done"
        /\ exitCode = Some(1)
        /\ stderr = <<"Error: Not in a git repository", "\n">>
        /\ ops = <<>>
        /\ requests = <<>>
        /\ config = None
        /\ branch = None
        /\ stdout = <<>>

C1_Witness == ~gitMarker /\ pc = "done" /\ exitCode = Some(1)

\* C2 as claimed: whenever gitlab.access-token is missing and the
\* configuration is read, the run exits non-zero with an error naming
\* gitlab.access-token and sends no request.
C2_TokenAlwaysNamed ==
    (KeyToken \notin cfgKeys /\ pc = "done" /\ Ran("get_string")) =>
        /\ ExitedNonZero
        /\ Names(KeyToken)
        /\ requests = <<>>

\* C2 as amended: whenever gitlab.access-token is missing the run never gets
\* past the config load, sends no request and ends with a non-zero exit code
\* and an error; when the configuration is read and gitlab.server is present
\* the error names gitlab.access-token, and when gitlab.server is missing too
\* the error names gitlab.server and not gitlab.access-token.
C2_FirstMissingKeyNamed ==
    KeyToken \notin cfgKeys =>
        /\ requests = <<>>
        /\ pc \in {"start", "get_git_config", "done"}
        /\ pc = "done" => ExitedNonZero /\ stderr # <<>>
        /\ (pc = "done" /\ Ran("get_string")) =>
              IF KeyServer \in cfgKeys
                  THEN Names(KeyToken) /\ ~Names(KeyProject)
                  ELSE Names(KeyServer) /\ ~Names(KeyToken)

C2_Witness ==
    /\ cfgKeys = {KeyServer}
    /\ pc = "done"
    /\ Ran("get_string")
    /\ Names(KeyToken)
    /\ exitCode = Some(1)

\* C3: when the pipelines request succeeds with an empty list the run prints
\* the informational line, ends with exit code 0 and sends no jobs request.
C3_EmptyPipelinesExitZero ==
    pipelines = Some(<<>>) =>
        /\ pc = "done"
        /\ exitCode = Some(0)
        /\ stderr = <<>>
        /\ stdout = Println(sBranchPrefix \o branch[1]) \o Println(sNoPipelines)
        /\ RequestKinds = <<"pipelines">>
        /\ jobs = None

C3_Witness == pipelines = Some(<<>>) /\ pc = "done" /\ exitCode = Some(0)

\* What holds of a run's state once a step has failed, or once it exited 0.
C5_StateOfFailure ==
    /\ failedAt # None => pc = "done" /\ ExitedNonZero
    /\ failedAt = Some("git_marker") => ops = <<>> /\ config = None
    /\ failedAt = Some("get_git_config") => config = None /\ ~Ran("repo.head")
    /\ failedAt \in {Some("git_marker"), Some("get_git_config"),
                    Some("get_current_branch")} =>
          branch = None /\ requests = <<>> /\ stdout = <<>>
    /\ failedAt = Some("get_pipeline_status") =>
          pipelines = None /\ RequestKinds = <<"pipelines">>
    /\ failedAt = Some("get_jobs") => jobs = None
    /\ failedAt # None => jobs = None
    /\ exitCode = Some(0) =>
          /\ failedAt = None
          /\ config # None /\ branch # None /\ pipelines # None
          /\ pipelines = Some(<<>>) \/ jobs # None

\* C5: every failure is terminal. A failed step ends the run with a non-zero
\* exit code, nothing of a later step has happened, no step follows the end of
\* the run, and exit code 0 means every step succeeded or the pipeline list
\* was empty.
C5_FailureIsTerminal ==
    /\ []C5_StateOfFailure
    /\ [][pc = "done" => vars' = vars]_vars

C5_Witness ==
    /\ failedAt = Some("get_jobs")
    /\ pc = "done"
    /\ exitCode = Some(1)
    /\ Len(requests) = 2

\* The exchanges in flight and the requests sent so far.
C6_RequestsSoFar ==
    /\ inflight \in {0, 1}
    /\ RequestKinds \in {<<>>, <<"pipelines">>, <<"pipelines", "jobs">>}

\* What holds before a step that sends a request.
C6_SendStep ==
    Len(requests') > Len(requests) =>
        /\ inflight = 0
        /\ requests'[Len(requests')].kind = "jobs" =>
              /\ pipelines # None
              /\ pipelines # Some(<<>>)
              /\ Len(bodies) = 1
              /\ bodies[1].kind = "pipelines"

\* C6: at most one HTTP exchange is in flight, a run sends at most one
\* pipelines request and then at most one jobs request, and a request is sent
\* only when none is in flight, the jobs request only after the pipelines
\* response was read and decoded to a non-empty list.
C6_OneRequestAtATime == []C6_RequestsSoFar /\ [][C6_SendStep]_vars

C6_Witness == RequestKinds = <<"pipelines", "jobs">> /\ inflight = 1

EqIgnoreCase(a, b) ==
    /\ Len(a) = Len(b)
    /\ \A i \in 1..Len(a) : CharToLower(a[i]) = CharToLower(b[i])

\* The label of the table of section 4.4 for a status.
TableLabel(status) ==
    IF EqIgnoreCase(status, sSuccess) THEN LabelSuccess
    ELSE IF EqIgnoreCase(status, sFailed) THEN LabelFailed
    ELSE IF EqIgnoreCase(status, sRunning) THEN LabelBuilding
    ELSE IF EqIgnoreCase(status, sPending) THEN LabelBuilding
    ELSE IF EqIgnoreCase(status, sCanceled) THEN LabelCanceled
    ELSE IF EqIgnoreCase(status, sSkipped) THEN LabelSkipped
    ELSE <<Bullet, " ">> \o to_uppercase(status)

\* C4: display_status prints exactly one label for every input: the fixed
\* label of the table when the input equals a recognized status ignoring case,
\* and the bullet followed by the uppercased input otherwise.
C4_RenderTotalCaseInsensitive ==
    pc = "returned" =>
        /\ fnOut # None
        /\ Len(fnOut[1]) = 1
        /\ fnOut[1][1].text = TableLabel(fnIn[1])
        /\ stdout = TableLabel(fnIn[1]) \o <<Newline>>

C4_Witness ==
    /\ pc = "returned"
    /\ EqIgnoreCase(fnIn[1], sCanceled)
    /\ fnIn[1] # sCanceled
    /\ stdout = LabelCanceled \o <<Newline>>

\* The shape section 6 documents for the pipelines response: an array of
\* objects with at least id (integer), status (string) and ref (string).
DocumentedPipelinesShape(body) ==
    /\ body.t = "array"
    /\ \A i \in 1..Len(body.items) :
        LET item == body.items[i] IN
        /\ item.t = "object"
        /\ {"id", "status", "ref"} \subseteq DOMAIN item.fields
        /\ item.fields["id"].t = "num"
        /\ item.fields["id"].v >= 0
        /\ item.fields["status"].t = "str"
        /\ item.fields["ref"].t = "str"

\* C7: a 2xx pipelines body of the documented shape decodes into one Pipeline
\* per element, ref mapped to ref_name, and decoding fails only for a body
\* that is not of that shape.
C7_DocumentedShapeDecodes ==
    \A n \in 1..Len(bodies) :
        bodies[n].kind = "pipelines" =>
            LET body == bodies[n].body IN
            /\ DocumentedPipelinesShape(body) =>
                  /\ pipelines # None
                  /\ Len(pipelines[1]) = Len(body.items)
                  /\ \A i \in 1..Len(body.items) :
                        /\ pipelines[1][i].id = body.items[i].fields["id"].v
                        /\ pipelines[1][i].status =
                              body.items[i].fields["status"].v
                        /\ pipelines[1][i].ref_name =
                              body.items[i].fields["ref"].v
            /\ pipelines = None => ~DocumentedPipelinesShape(body)

\* How much of the server is left when its trailing slashes are dropped.
TrimmedLen(server) ==
    CHOOSE k \in 0..Len(server) :
        /\ \A i \in (k + 1)..Len(server) : server[i] = "/"
        /\ k = 0 \/ server[k] # "/"

HexValue(c) == (CHOOSE i \in 1..Len(HexDigits) : HexDigits[i] = c) - 1

IsEscapeAt(s, i) ==
    /\ s[i] = "%"
    /\ i + 2 <= Len(s)
    /\ \A j \in {i + 1, i + 2} : \E h \in 1..Len(HexDigits) : HexDigits[h] = s[j]

\* The bytes a percent-encoded string stands for, read left to right; a
\* string that is not well formed decodes to <<-1>>.
RECURSIVE PercentDecode(_)
PercentDecode(s) ==
    IF s = <<>> THEN <<>>
    ELSE IF IsEscapeAt(s, 1)
        THEN <<16 * HexValue(s[2]) + HexValue(s[3])>>
                \o PercentDecode(SubSeq(s, 4, Len(s)))
    ELSE IF IsAscii(s[1]) /\ s[1] # "%"
        THEN <<Code(s[1])>> \o PercentDecode(Tail(s))
    ELSE <<-1>>

\* The characters a URL path segment may carry as they are.
SafeInPath(c) ==
    \/ c \in {"-", "_", ".", "~", "%"}
    \/ IsAscii(c) /\ Code(c) >= 48 /\ Code(c) <= 57
    \/ IsAscii(c) /\ Code(c) >= 65 /\ Code(c) <= 90
    \/ IsAscii(c) /\ Code(c) >= 97 /\ Code(c) <= 122

StringBytes(s) == Flatten([i \in 1..Len(s) |-> Utf8Bytes(s[i])])

RECURSIVE DecimalValue(_)
DecimalValue(d) ==
    IF d = <<>> THEN 0
    ELSE 10 * DecimalValue(SubSeq(d, 1, Len(d) - 1)) + (Code(d[Len(d)]) - 48)

Contains(s, part) ==
    \E i \in 1..(Len(s) - Len(part) + 1) :
        SubSeq(s, i, i + Len(part) - 1) = part

\* group/sub-project, percent-encoded.
sGroupEncoded ==
    <<"g", "r", "o", "u", "p", "%", "2", "F", "s", "u", "b", "-", "p", "r",
      "o", "j", "e", "c", "t">>

sDoubleSlashApi == <<"/", "/", "a", "p", "i", "/", "v", "4">>

\* url is base, /api/v4/projects/, a percent-encoding of project_name, tail.
UrlHasParts(url, base, project_name, tail) ==
    LET from == Len(base) + Len(sApiProjects) + 1
        to == Len(url) - Len(tail)
        project == SubSeq(url, from, to)
    IN /\ to >= from - 1
       /\ SubSeq(url, 1, from - 1) = base \o sApiProjects
       /\ SubSeq(url, to + 1, Len(url)) = tail
       /\ \A i \in 1..Len(project) : SafeInPath(project[i])
       /\ PercentDecode(project) = StringBytes(project_name)
       /\ project_name = sProjectPath => project = sGroupEncoded

\* C8: each request URL is the server without its trailing slashes, then
\* /api/v4/projects/, then the percent-encoded project identifier, then
\* /pipelines?ref= and the branch as it is, or /pipelines/, the pipeline id
\* in decimal and /jobs; no //api/v4 appears in it.
C8_RequestUrlShape ==
    pc = "returned" =>
        LET arg == fnIn[1]
            url == fnOut[1].url
            base == SubSeq(arg.server, 1, TrimmedLen(arg.server))
        IN /\ ~Contains(url, sDoubleSlashApi)
           /\ fnOut[1].kind = "pipelines" =>
                UrlHasParts(url, base, arg.project_name,
                            sPipelinesRef \o arg.branch)
           /\ fnOut[1].kind = "jobs" =>
                \E n \in 1..Len(url) :
                    LET digits == SubSeq(url, Len(url) - Len(sJobs) - n + 1,
                                         Len(url) - Len(sJobs))
                    IN /\ \A i \in 1..n : digits[i] \in
                            {"0", "1", "2", "3", "4", "5", "6", "7", "8", "9"}
                       /\ DecimalValue(digits) = arg.pipeline_id
                       /\ n > 1 => digits[1] # "0"
                       /\ UrlHasParts(url, base, arg.project_name,
                                      sPipelinesSlash \o digits \o sJobs)

C8_Witness ==
    /\ pc = "returned"
    /\ fnOut[1].kind = "pipelines"
    /\ fnIn[1].server = sServerSlash
    /\ fnIn[1].project_name = sProjectPath
    /\ fnIn[1].branch = sFeatureX
    /\ Contains(fnOut[1].url, sGroupEncoded)

\* A field of a response element, sent as an object or as an array.
ElementField(item, key, position) ==
    IF item.t = "object" THEN item.fields[key].v ELSE item.items[position].v

FirstPipelineReceived == bodies[1].body.items[1]

BranchLine == Println(sBranchPrefix \o branch[1])

\* The lines for the first pipeline received: its id, then its status.
LatestPipelineLines ==
    Println(sPipelineIdPrefix
                \o ToDecimal(ElementField(FirstPipelineReceived, "id", 1)))
        \o Println(sStatusHeader)
        \o display_status(ElementField(FirstPipelineReceived, "status", 2))

RECURSIVE JobLinesReceived(_)
JobLinesReceived(items) ==
    IF items = <<>> THEN <<>>
    ELSE sJobIndent \o ElementField(Head(items), "name", 3)
            \o sJobOpen \o ElementField(Head(items), "stage", 4)
            \o sJobClose
            \o display_status(ElementField(Head(items), "status", 2))
            \o JobLinesReceived(Tail(items))

\* C9: with a non-empty pipeline list the first element received is the
\* latest: its id and rendered status are printed and the jobs request is for
\* its id; after the jobs are received the output ends with the Jobs: header
\* and one line per job in the order received, or with nothing more when the
\* job list is empty.
C9_LatestPipelineAndJobLines ==
    (pipelines # None /\ pipelines[1] # <<>>) =>
        /\ IsPrefix(BranchLine \o LatestPipelineLines, stdout)
        /\ Len(requests) = 2 =>
              /\ requests[2].kind = "jobs"
              /\ requests[2].url =
                    JobsUrl(config[1],
                            ElementField(FirstPipelineReceived, "id", 1))
        /\ jobs = None => stdout = BranchLine \o LatestPipelineLines
        /\ jobs # None =>
              LET items == bodies[2].body.items IN
              /\ Len(jobs[1]) = Len(items)
              /\ stdout = BranchLine \o LatestPipelineLines
                    \o (IF items = <<>> THEN <<>>
                        ELSE Println(sJobsHeader) \o JobLinesReceived(items))

C9_Witness ==
    /\ pc = "done"
    /\ pipelines # None
    /\ Len(pipelines[1]) = 2
    /\ pipelines[1][1].id # pipelines[1][2].id
    /\ jobs # None
    /\ Len(jobs[1]) = 2
    /\ jobs[1][1].name # jobs[1][2].name

\* Standard output while a request is out and after it has failed.
C10_OutputAtRequest ==
    /\ (pc \in {"pipelines_await", "pipelines_json"}
            \/ failedAt = Some("get_pipeline_status")) =>
          stdout = BranchLine
    /\ (pc \in {"jobs_await", "jobs_json"} \/ failedAt = Some("get_jobs")) =>
          stdout = BranchLine \o LatestPipelineLines
    /\ failedAt = Some("get_jobs") => ExitedNonZero

\* C10: output is never withdrawn. The Branch: line is on standard output
\* while the pipelines request is out and after that request has failed; the
\* pipeline id and status lines are there too while the jobs request is out
\* and after the jobs fetch has failed with a non-zero exit code.
C10_OutputKeptOnFailure ==
    /\ []C10_OutputAtRequest
    /\ [][IsPrefix(stdout, stdout')]_vars

C10_Witness ==
    /\ failedAt = Some("get_jobs")
    /\ pc = "done"
    /\ IsPrefix(BranchLine \o sPipelineIdPrefix, stdout)

====
